---- MODULE Spec2Model ----
(***************************************************************************)
(* Chunked audio streaming of andreich/audio: the client-side recorder R   *)
(* (client/recorder/recorder.go) that forwards capture buffers over        *)
(* transport streams and rotates them, and the server-side Record handler  *)
(* (server/server.go) that writes each stream to a file, and the shutdown  *)
(* sequence of the client's main (client/client.go).                       *)
(*                                                                         *)
(* Durations are time.Duration values counted in milliseconds instead of   *)
(* nanoseconds (Second == 1000), which keeps every product inside the      *)
(* integers the model checker handles; all durations of the model are      *)
(* whole milliseconds.  Sample rates are integer-valued float32 rates (the *)
(* client passes its integer flag as float32); the duration computation   *)
(* is done as the code does it, in float32: the frame count and the       *)
(* divisor are rounded to 24 significant bits, the quotient is rounded    *)
(* again and then truncated.  Counts stay below 2^31.                     *)
(*                                                                         *)
(* A capture buffer is kept as the pair of its identity and its number of *)
(* samples; the code copies, sends and writes the samples of a buffer as  *)
(* one block and never looks at their values.                              *)
(***************************************************************************)
EXTENDS Integers, Sequences, FiniteSets, TLC

\* ---------------------------------------------------------------- bounds
MaxOps == 6         \* Process and Close calls in a run without transport failures
MaxBuf == 3         \* longest capture buffer of such a run, in samples
MaxFailOps == 4     \* Process and Close calls in a run with transport failures
MaxFailBuf == 2     \* longest capture buffer of such a run, in samples
MaxFailures == 2    \* transport calls that fail in a run
MaxSessions == 2    \* streams the server accepts
MaxRecv == 2        \* messages the server receives, over all streams
MaxFileFailures == 1 \* file writer calls that fail in a run
MaxSystemOps == 3   \* Process and Close calls in a run of recorder and server together

\* time.Second, in the model's unit of one millisecond
Second == 1000

\* the nil stream of R.currentStream
Nil == 0

\* ------------------------------------------------------------ recorder state
VARIABLES
    numChannels,     \* R.numChannels
    sampleRate,      \* R.sampleRate
    maxLength,       \* R.maxLength (milliseconds)
    currentStream,   \* R.currentStream: Nil or the index of a stream in streams
    currentFrames,   \* R.currentFrames
    streams,         \* the streams client.Record returned, in the order they were
                     \* opened; each is the sequence of calls issued on it
    calls,           \* the buffers passed to the Process callback, in arrival order
    last,            \* the last operation on the recorder and how it ended
    closedAt,        \* for each Close() call so far, the number of buffers before it
    failures         \* number of transport calls that failed so far

rvars == <<numChannels, sampleRate, maxLength, currentStream, currentFrames,
           streams, calls, last, closedAt, failures>>

\* ------------------------------------------------------------ server state
VARIABLES
    numClients,      \* server.numClients
    recordings,      \* the newRecording calls, in the order the mutex admitted them,
                     \* each with the file sndfile.Open made for it
    sessions,        \* the server.Record handlers, one per accepted stream
    fileFailures     \* number of file writer calls that failed so far

svars == <<numClients, recordings, sessions, fileFailures>>

\* ------------------------------------------------------------ client state
VARIABLES
    main,            \* the client's main: where it stands after stream.Start()
                     \* (pc) and the status the process exited with (exit)
    callback         \* where a Process callback that runs beside the server
                     \* stands between its transport calls ("idle": none runs)

cvars == <<main, callback>>

\* ------------------------------------------------------------ sample blocks
\* A nil or empty []float32.
NoSamples == [id |-> 0, n |-> 0]

\* The k-th capture buffer, len samples long: a block of len samples known by
\* the buffer it came from, so that a dropped, duplicated or reordered block
\* shows.
Buffer(k, len) == IF len = 0 THEN NoSamples ELSE [id |-> k, n |-> len]

\* len(b) of a sample block b.
Size(b) == b.n

\* ------------------------------------------------------------ wire messages
\* service.RecordRequest: an optional Header and the repeated sample field.
HeaderMsg(nc, sr) ==
    [hasHeader |-> TRUE, num_channels |-> nc, sample_rate |-> sr,
     sample |-> NoSamples]

SampleMsg(in) ==
    [hasHeader |-> FALSE, num_channels |-> 0, sample_rate |-> 0, sample |-> in]

\* One call issued on a stream: Send(msg) or CloseSend(), and whether it returned nil.
SendEv(msg, ok) == [op |-> "Send", msg |-> msg, ok |-> ok]

CloseSendEv(ok) == [op |-> "CloseSend", msg |-> SampleMsg(NoSamples), ok |-> ok]

\* ------------------------------------------------------------ recorder code
\* The recorder's mutable fields and the transport's record, threaded through
\* the methods: cs = currentStream, cf = currentFrames, st = streams,
\* err = the error the method returns ("none" for nil), fails = failed calls.
RState(cs, cf, st, err, fails) ==
    [currentStream |-> cs, currentFrames |-> cf, streams |-> st, err |-> err,
     fails |-> fails]

\* floor(log2(n)) for n >= 1.
RECURSIVE Log2(_)
Log2(n) == IF n < 2 THEN 0 ELSE 1 + Log2(n \div 2)

\* a / b rounded to the nearest integer, a tie to the even one.
RoundHalfEven(a, b) ==
    LET m == a \div b
        r == a % b
    IN  IF 2 * r > b \/ (2 * r = b /\ m % 2 = 1) THEN m + 1 ELSE m

\* float32(x) of an integer x >= 0: x rounded to 24 significant bits.
float32(x) ==
    IF x < 2^24 THEN x
    ELSE LET s == 2^(Log2(x) - 23) IN RoundHalfEven(x, s) * s

\* The float32 quotient of the integer-valued float32 numbers a >= 0 and b > 0,
\* converted to an integer as time.Duration(...) does: the exact quotient is
\* rounded to 24 significant bits and the result truncated.  With n the whole
\* part of a / b and f the fraction bits left beside it, the rounding reaches
\* n + 1 when a / b is at most 2^-(f+1) below it.
TruncQuo(a, b) ==
    LET n == a \div b
        r == a % b
    IN  IF n >= 2^23
        THEN LET s == 2^(Log2(n) - 23) IN RoundHalfEven(a, b * s) * s
        ELSE LET f == IF n = 0 THEN 24 ELSE 23 - Log2(n)
             IN  IF b - r <= b \div 2^(f + 1) THEN n + 1 ELSE n

\* time.Duration(float32(frames)/div) * time.Second with
\* div = sampleRate * float32(numChannels), all in float32.
Duration(frames, sr, nc) == TruncQuo(float32(frames), float32(sr * nc)) * Second

\* closeCurrentStream without the reset of currentFrames.
closeCurrentStreamKeepsFrames(rs, closeOK) ==
    IF rs.currentStream = Nil
    THEN [rs EXCEPT !.err = "none"]
    ELSE [rs EXCEPT !.streams[rs.currentStream] = Append(@, CloseSendEv(closeOK)),
                    !.err = IF closeOK THEN "none" ELSE "CloseSend",
                    !.fails = IF closeOK THEN @ ELSE @ + 1]

closeCurrentStream(rs, closeOK) ==
    LET z == [rs EXCEPT !.currentFrames = 0]
    IN  IF rs.currentStream = Nil
        THEN [z EXCEPT !.err = "none"]
        ELSE [z EXCEPT !.streams[rs.currentStream] = Append(@, CloseSendEv(closeOK)),
                       !.err = IF closeOK THEN "none" ELSE "CloseSend",
                       !.fails = IF closeOK THEN @ ELSE @ + 1]

\* r.currentStream, err = r.client.Record(ctx)
Record(c, recOK) ==
    IF ~recOK
    THEN [c EXCEPT !.currentStream = Nil, !.err = "Record", !.fails = @ + 1]
    ELSE [c EXCEPT !.currentStream = Len(c.streams) + 1,
                   !.streams = Append(@, <<>>),
                   !.err = "none"]

\* r.currentStream.Send(&service.RecordRequest{Header: ...})
SendHeader(c, hdrOK) ==
    [c EXCEPT !.streams[c.currentStream] =
                  Append(@, SendEv(HeaderMsg(numChannels, sampleRate), hdrOK)),
              !.err = IF hdrOK THEN "none" ELSE "Header",
              !.fails = IF hdrOK THEN @ ELSE @ + 1]

\* The stream a rotation opens and the Header sent on it.
openStream(c, recOK, hdrOK) ==
    LET r == Record(c, recOK)
    IN  IF r.err # "none" THEN r ELSE SendHeader(r, hdrOK)

\* The test of testAndCloseStream: the current stream takes the buffer.
keepsStream(rs, d) == rs.currentStream # Nil /\ maxLength >= d

\* testAndCloseStream sending the Header on every call, not only after Record.
testAndCloseStreamResendsHeader(rs, d, closeOK, recOK, hdrOK) ==
    IF rs.currentStream # Nil /\ maxLength >= d
    THEN [rs EXCEPT !.streams[rs.currentStream] =
                        Append(@, SendEv(HeaderMsg(numChannels, sampleRate), hdrOK)),
                    !.err = IF hdrOK THEN "none" ELSE "Header",
                    !.fails = IF hdrOK THEN @ ELSE @ + 1]
    ELSE openStream(closeCurrentStream(rs, closeOK), recOK, hdrOK)

\* testAndCloseStream opening the next stream without CloseSend on the old one.
testAndCloseStreamLeaks(rs, d, closeOK, recOK, hdrOK) ==
    IF rs.currentStream # Nil /\ maxLength >= d
    THEN [rs EXCEPT !.err = "none"]
    ELSE openStream([rs EXCEPT !.currentFrames = 0], recOK, hdrOK)

testAndCloseStream(rs, d, closeOK, recOK, hdrOK) ==
    IF keepsStream(rs, d)
    THEN [rs EXCEPT !.err = "none"]
    ELSE openStream(closeCurrentStream(rs, closeOK), recOK, hdrOK)

\* The callback returning right after a rotation, without sending the buffer.
ProcessCallbackDropsOnRotation(rs, in, closeOK, recOK, hdrOK, sendOK) ==
    LET lin == Size(in)
        d == Duration(rs.currentFrames + lin, sampleRate, numChannels)
        t == testAndCloseStream(rs, d, closeOK, recOK, hdrOK)
    IN  IF t.err # "none" \/ Len(t.streams) > Len(rs.streams)
        THEN t
        ELSE [t EXCEPT !.currentFrames = @ + lin,
                       !.streams[t.currentStream] = Append(@, SendEv(SampleMsg(in), sendOK)),
                       !.err = IF sendOK THEN "none" ELSE "Send",
                       !.fails = IF sendOK THEN @ ELSE @ + 1]

\* The callback counting a buffer's frames only when its Send succeeded.
ProcessCallbackCountsSentFrames(rs, in, closeOK, recOK, hdrOK, sendOK) ==
    LET lin == Size(in)
        d == Duration(rs.currentFrames + lin, sampleRate, numChannels)
        t == testAndCloseStream(rs, d, closeOK, recOK, hdrOK)
    IN  IF t.err # "none"
        THEN t
        ELSE [t EXCEPT !.currentFrames = IF sendOK THEN @ + lin ELSE @,
                       !.streams[t.currentStream] = Append(@, SendEv(SampleMsg(in), sendOK)),
                       !.err = IF sendOK THEN "none" ELSE "Send",
                       !.fails = IF sendOK THEN @ ELSE @ + 1]

\* The end of the callback: r.currentFrames += lin and Send of the sample block.
SendBlock(t, in, sendOK) ==
    [t EXCEPT !.currentFrames = @ + Size(in),
              !.streams[t.currentStream] = Append(@, SendEv(SampleMsg(in), sendOK)),
              !.err = IF sendOK THEN "none" ELSE "Send",
              !.fails = IF sendOK THEN @ ELSE @ + 1]

\* The callback Process returns, applied to the buffer in.
ProcessCallback(rs, in, closeOK, recOK, hdrOK, sendOK) ==
    LET lin == Size(in)
        d == Duration(rs.currentFrames + lin, sampleRate, numChannels)
        t == testAndCloseStream(rs, d, closeOK, recOK, hdrOK)
    IN  IF t.err # "none" THEN t ELSE SendBlock(t, in, sendOK)

Cur == RState(currentStream, currentFrames, streams, "none", failures)

Install(rs, op) ==
    /\ currentStream' = rs.currentStream
    /\ currentFrames' = rs.currentFrames
    /\ streams' = rs.streams
    /\ failures' = rs.fails
    /\ last' = [op |-> op, err |-> rs.err]

\* New(client, maxLength, numChannels, sampleRate)
New(ml, nc, sr) ==
    /\ numChannels = nc
    /\ sampleRate = sr
    /\ maxLength = ml
    /\ currentStream = Nil
    /\ currentFrames = 0
    /\ streams = <<>>
    /\ calls = <<>>
    /\ last = [op |-> "New", err |-> "none"]
    /\ closedAt = <<>>
    /\ failures = 0
    /\ callback = "idle"

\* Calls made on the recorder so far.
Ops == Len(calls) + Len(closedAt)

\* One Process callback whose transport calls may fail.
Process ==
    /\ Ops < MaxFailOps
    /\ \E len \in 0..MaxFailBuf, closeOK, recOK, hdrOK, sendOK \in BOOLEAN :
         LET in == Buffer(Len(calls) + 1, len)
             rs == ProcessCallback(Cur, in, closeOK, recOK, hdrOK, sendOK)
         IN  /\ rs.fails <= MaxFailures
             /\ calls' = Append(calls, in)
             /\ Install(rs, "Process")
    /\ UNCHANGED <<numChannels, sampleRate, maxLength, closedAt, svars, cvars>>

\* One Process callback whose transport calls all succeed.
ProcessOK ==
    /\ Ops < MaxOps
    /\ \E len \in 0..MaxBuf :
         LET in == Buffer(Len(calls) + 1, len)
             rs == ProcessCallback(Cur, in, TRUE, TRUE, TRUE, TRUE)
         IN  /\ calls' = Append(calls, in)
             /\ Install(rs, "Process")
    /\ UNCHANGED <<numChannels, sampleRate, maxLength, closedAt, svars, cvars>>

\* One Process callback fed as client main has the capture source feed it: a
\* buffer of one second (FramesPerBuffer = sample rate); the transport calls succeed.
ProcessSecond ==
    /\ Ops < MaxOps
    /\ LET in == Buffer(Len(calls) + 1, sampleRate * numChannels)
           rs == ProcessCallback(Cur, in, TRUE, TRUE, TRUE, TRUE)
       IN  /\ calls' = Append(calls, in)
           /\ Install(rs, "Process")
    /\ UNCHANGED <<numChannels, sampleRate, maxLength, closedAt, svars, cvars>>

\* R.Close()
Close ==
    /\ Ops < MaxFailOps
    /\ \E closeOK \in BOOLEAN :
         LET rs == closeCurrentStream(Cur, closeOK)
         IN  /\ rs.fails <= MaxFailures
             /\ Install(rs, "Close")
    /\ closedAt' = Append(closedAt, Len(calls))
    /\ UNCHANGED <<numChannels, sampleRate, maxLength, calls, svars, cvars>>

\* R.Close() whose CloseSend succeeds.
CloseOK ==
    /\ Ops < MaxOps
    /\ Install(closeCurrentStream(Cur, TRUE), "Close")
    /\ closedAt' = Append(closedAt, Len(calls))
    /\ UNCHANGED <<numChannels, sampleRate, maxLength, calls, svars, cvars>>

\* ------------------------------------------------------------ client main
\* main has no part in a run that drives the recorder or the server directly.
NoMain == main = [pc |-> "none", exit |-> "none"]

\* main after stream.Start() returned nil: the capture source is running.
Started == main = [pc |-> "capturing", exit |-> "none"]

\* Errorf: log and os.Exit(1); the process ends there, no deferred call runs.
Errorf(m) == [m EXCEPT !.pc = "exited", !.exit = 1]

\* The capture source invokes the callback rec.Process(ctx) returned.
Callback ==
    /\ main.pc = "capturing"
    /\ Process

\* The timer fires and main calls stream.Stop(), which stops the capture source
\* or returns an error.
Stop ==
    /\ main.pc = "capturing"
    /\ \E stopOK \in BOOLEAN :
         main' = IF stopOK THEN [main EXCEPT !.pc = "stopped"] ELSE Errorf(main)
    /\ UNCHANGED <<rvars, svars, callback>>

\* main calls rec.Close(); its error is only logged.
MainClose ==
    /\ main.pc = "stopped"
    /\ \E closeOK \in BOOLEAN :
         LET rs == closeCurrentStream(Cur, closeOK)
         IN  /\ rs.fails <= MaxFailures
             /\ Install(rs, "Close")
    /\ closedAt' = Append(closedAt, Len(calls))
    /\ main' = [main EXCEPT !.pc = "closed"]
    /\ UNCHANGED <<numChannels, sampleRate, maxLength, calls, svars, callback>>

\* main returns: the deferred portaudio.Terminate() runs (Errorf if it fails),
\* then conn.Close(), and the process exits.
Return ==
    /\ main.pc = "closed"
    /\ \E termOK \in BOOLEAN :
         main' = IF termOK THEN [main EXCEPT !.pc = "exited", !.exit = 0]
                 ELSE Errorf(main)
    /\ UNCHANGED <<rvars, svars, callback>>

\* ------------------------------------------------------------ server inputs
Sessions == 1..MaxSessions

\* The headers a client may put on the wire: a well-formed one and two with a
\* field that is not positive.
Headers == {<<1, 2>>, <<0, 2>>, <<1, 0>>}

\* The sample blocks differ in length as far as the handler looks: empty or not.
SampleLens == {0, 1}

\* service.RecordRequest as received: any combination of the two fields.
Request(hasHeader, h, in) ==
    [hasHeader |-> hasHeader,
     num_channels |-> IF hasHeader THEN h[1] ELSE 0,
     sample_rate |-> IF hasHeader THEN h[2] ELSE 0,
     sample |-> in]

\* ------------------------------------------------------------ server code
\* The server's fields and the file writer's record, threaded through the
\* handler: nc = numClients, recs = recordings, ses = sessions.
SState(nc, recs, ses, fails) ==
    [numClients |-> nc, recordings |-> recs, sessions |-> ses, fails |-> fails]

\* The decimal digits of n >= 0, most significant first.
RECURSIVE Digits(_)
Digits(n) == IF n < 10 THEN <<n>> ELSE Append(Digits(n \div 10), n % 10)

\* fmt's %03d: the digits of n, padded with zeros on the left to three places.
Pad03(n) ==
    LET d == Digits(n)
    IN  IF Len(d) >= 3 THEN d ELSE [i \in 1..(3 - Len(d)) |-> 0] \o d

\* The name newRecording gives the file of sequence number seq; the timestamp
\* part is the same for all files made within one second, the case modelled.
FileName(seq) == <<"rec", "2006-01-02-15-04-05", Pad03(seq)>>

\* newRecording advancing the counter only when sndfile.Open succeeded.
newRecordingCountsFiles(sv, s, channels, rate, openOK) ==
    [sv EXCEPT !.recordings = Append(@, [session |-> s, seq |-> sv.numClients,
                                         channels |-> channels, samplerate |-> rate,
                                         ok |-> openOK, frames |-> <<>>,
                                         writeFailed |-> FALSE,
                                         closed |-> <<>>]),
               !.numClients = IF openOK THEN @ + 1 ELSE @,
               !.sessions[s].out = IF openOK THEN Len(sv.recordings) + 1 ELSE Nil,
               !.fails = IF openOK THEN @ ELSE @ + 1]

\* server.newRecording, called by session s; the whole body runs under s.mu.
\* The file is named after the value of numClients the call reads (seq).
newRecording(sv, s, channels, rate, openOK) ==
    [sv EXCEPT !.recordings = Append(@, [session |-> s, seq |-> sv.numClients,
                                         channels |-> channels, samplerate |-> rate,
                                         ok |-> openOK, frames |-> <<>>,
                                         writeFailed |-> FALSE,
                                         closed |-> <<>>]),
               !.numClients = @ + 1,
               !.sessions[s].out = IF openOK THEN Len(sv.recordings) + 1 ELSE Nil,
               !.fails = IF openOK THEN @ ELSE @ + 1]

\* Where the handler goes on with the message in once its file is open: to
\* WriteFrames if the message holds samples, else to the next Recv.
afterOpen(in) == IF Size(in.sample) > 0 THEN "write" ELSE "recv"

\* The message of the iteration the handler of session s is in.
current(sv, s) == sv.sessions[s].recvd[Len(sv.sessions[s].recvd)]

\* srv.Recv returned in and the test out == nil opening a file for every
\* message that carries a Header.
recvReopens(sv, s, in) ==
    [sv EXCEPT !.sessions[s].recvd = Append(@, in),
               !.sessions[s].pc = IF sv.sessions[s].out = Nil \/ in.hasHeader
                                  THEN "open" ELSE afterOpen(in)]

\* srv.Recv returned in, with the file's format taken from every Header received.
recvReformats(sv, s, in) ==
    LET out == sv.sessions[s].out
        a == [sv EXCEPT !.sessions[s].recvd = Append(@, in),
                        !.sessions[s].pc = IF out = Nil THEN "open" ELSE afterOpen(in)]
    IN  IF out # Nil /\ in.hasHeader
        THEN [a EXCEPT !.recordings[out].channels = in.num_channels,
                       !.recordings[out].samplerate = in.sample_rate]
        ELSE a

\* srv.Recv returned the message in; the handler tests out == nil.
recv(sv, s, in) ==
    [sv EXCEPT !.sessions[s].recvd = Append(@, in),
               !.sessions[s].pc = IF sv.sessions[s].out = Nil
                                  THEN "open" ELSE afterOpen(in)]

\* server.Record returning a WriteFrames error without the deferred Close.
returnLeaksOnWriteError(sv, s, ret) ==
    [sv EXCEPT !.sessions[s].ret = ret,
               !.sessions[s].pc = IF sv.sessions[s].out = Nil \/ ret = "write"
                                  THEN "done" ELSE "close"]

\* server.Record ending every session of the server when it returns an error.
returnEndsAllSessions(sv, s, ret) ==
    [sv EXCEPT !.sessions =
        [t \in DOMAIN sv.sessions |->
            IF t = s
            THEN [sv.sessions[t] EXCEPT
                     !.ret = ret,
                     !.pc = IF sv.sessions[t].out = Nil THEN "done" ELSE "close"]
            ELSE IF ret # "nil" THEN [sv.sessions[t] EXCEPT !.pc = "done"]
            ELSE sv.sessions[t]]]

\* server.Record returns err (ret = "nil" for a nil error); the deferred
\* out.Close() is pending if the file was opened.
return(sv, s, ret) ==
    [sv EXCEPT !.sessions[s].ret = ret,
               !.sessions[s].pc = IF sv.sessions[s].out = Nil THEN "done" ELSE "close"]

\* out, err = s.newRecording(...) for the message just received, and the test of err.
openFile(sv, s, openOK) ==
    LET in == current(sv, s)
        b == newRecording(sv, s, in.num_channels, in.sample_rate, openOK)
    IN  IF b.sessions[s].out = Nil
        THEN return(b, s, "open")
        ELSE [b EXCEPT !.sessions[s].pc = afterOpen(in)]

\* out.WriteFrames(in.GetSample()) for the message just received.
writeFrames(sv, s, writeOK) ==
    LET in == current(sv, s)
        out == sv.sessions[s].out
    IN  IF writeOK
        THEN [sv EXCEPT !.recordings[out].frames = Append(@, in.sample),
                        !.sessions[s].pc = "recv"]
        ELSE return([sv EXCEPT !.recordings[out].writeFailed = TRUE,
                               !.fails = @ + 1],
                    s, "write")

\* The deferred out.Close() of server.Record, run when the handler returns; its
\* result is discarded.
deferredClose(sv, s, closeOK) ==
    [sv EXCEPT !.recordings[sv.sessions[s].out].closed = Append(@, closeOK),
               !.fails = IF closeOK THEN @ ELSE @ + 1,
               !.sessions[s].pc = "done"]

SCur == SState(numClients, recordings, sessions, fileFailures)

SInstall(sv) ==
    /\ numClients' = sv.numClients
    /\ recordings' = sv.recordings
    /\ sessions' = sv.sessions
    /\ fileFailures' = sv.fails

Received == LET RECURSIVE Sum(_)
                Sum(S) == IF S = {} THEN 0
                          ELSE LET x == CHOOSE x \in S : TRUE
                               IN  Len(sessions[x].recvd) + Sum(S \ {x})
            IN  Sum(Sessions)

\* &server{prefix: "rec"}: no client yet, no handler running.
ServerInit ==
    /\ numClients = 0
    /\ recordings = <<>>
    /\ sessions = [s \in Sessions |-> [pc |-> "idle", out |-> Nil, recvd |-> <<>>,
                                       ret |-> "none"]]
    /\ fileFailures = 0

\* gRPC accepts a stream and starts server.Record on it.
Accept(s) ==
    /\ sessions[s].pc = "idle"
    /\ \A t \in Sessions : t < s => sessions[t].pc # "idle"
    /\ sessions' = [sessions EXCEPT ![s].pc = "recv"]
    /\ UNCHANGED <<numClients, recordings, fileFailures, rvars, cvars>>

\* Recv delivers a message the peer chose.
RecvMsg(s) ==
    /\ sessions[s].pc = "recv"
    /\ Received < MaxRecv
    /\ \E hasHeader \in BOOLEAN, h \in Headers, len \in SampleLens :
         LET in == Request(hasHeader, h,
                           Buffer(10 * s + Len(sessions[s].recvd) + 1, len))
         IN  /\ hasHeader \/ h = <<1, 2>>
             /\ SInstall(recv(SCur, s, in))
    /\ UNCHANGED <<rvars, cvars>>

\* The handler calls newRecording: it takes s.mu, names and opens the file,
\* advances numClients and releases s.mu.
OpenFile(s) ==
    /\ sessions[s].pc = "open"
    /\ \E openOK \in BOOLEAN :
         LET sv == openFile(SCur, s, openOK)
         IN  /\ sv.fails <= MaxFileFailures
             /\ SInstall(sv)
    /\ UNCHANGED <<rvars, cvars>>

\* The handler calls out.WriteFrames.
WriteFrames(s) ==
    /\ sessions[s].pc = "write"
    /\ \E writeOK \in BOOLEAN :
         LET sv == writeFrames(SCur, s, writeOK)
         IN  /\ sv.fails <= MaxFileFailures
             /\ SInstall(sv)
    /\ UNCHANGED <<rvars, cvars>>

\* Recv returns an error: the peer closed the stream or the transport broke.
RecvErr(s) ==
    /\ sessions[s].pc = "recv"
    /\ SInstall(return(SCur, s, "nil"))
    /\ UNCHANGED <<rvars, cvars>>

\* The handler has returned and its deferred out.Close() runs.
CloseFile(s) ==
    /\ sessions[s].pc = "close"
    /\ \E closeOK \in BOOLEAN :
         LET sv == deferredClose(SCur, s, closeOK)
         IN  /\ sv.fails <= MaxFileFailures
             /\ SInstall(sv)
    /\ UNCHANGED <<rvars, cvars>>

vars == <<rvars, svars, cvars>>

\* ------------------------------------------------------------ observations
RECURSIVE Flatten(_)
Flatten(ss) == IF ss = <<>> THEN <<>> ELSE Head(ss) \o Flatten(Tail(ss))

\* The messages the recorder passed to Send on a stream, in send order.
Issued(log) ==
    LET sends == SelectSeq(log, LAMBDA e : e.op = "Send")
    IN  [i \in 1..Len(sends) |-> sends[i].msg]

\* The messages whose Send returned nil (what fakeStream.sent holds).
Sent(log) ==
    LET sends == SelectSeq(log, LAMBDA e : e.op = "Send" /\ e.ok)
    IN  [i \in 1..Len(sends) |-> sends[i].msg]

\* The sample blocks among msgs, and their payloads put end to end: the blocks
\* that hold samples, in order.
SampleBlocks(msgs) == SelectSeq(msgs, LAMBDA m : ~m.hasHeader)

Payload(msgs) ==
    LET full == SelectSeq(msgs, LAMBDA m : Size(m.sample) > 0)
    IN  [i \in 1..Len(full) |-> full[i].sample]

\* The buffers passed to the callback put end to end.
Input == SelectSeq(calls, LAMBDA b : Size(b) > 0)

\* The number of samples in a sequence of blocks.
RECURSIVE Samples(_)
Samples(bs) == IF bs = <<>> THEN 0 ELSE Size(Head(bs)) + Samples(Tail(bs))

\* CloseSend calls issued on a stream.
CloseSends(log) == Len(SelectSeq(log, LAMBDA e : e.op = "CloseSend"))

CeilDiv(a, b) == (a + b - 1) \div b

Min(a, b) == IF a <= b THEN a ELSE b

\* sampleRate * numChannels, the divisor of the duration computation.
Div == sampleRate * numChannels

\* Every Close() so far came after the last buffer.
ClosedOnlyAtEnd == \A i \in 1..Len(closedAt) : closedAt[i] = Len(calls)

\* All buffers so far have the same, non-zero length len.
ConstantBuffers(len) == len > 0 /\ \A i \in 1..Len(calls) : Size(calls[i]) = len

\* ------------------------------------------------------------ recorder and server
\* One recorder connected to the server: the messages whose Send returned nil
\* reach the handler of their stream, in send order.  The callback is taken
\* transport call by transport call, the server running in between; every call
\* succeeds.  As in client main, Close() is called once, after the last callback.

\* The capture source invokes the callback: it computes d and tests the stream.
CallbackBegin ==
    /\ callback = "idle"
    /\ closedAt = <<>>
    /\ Ops < MaxSystemOps
    /\ \E len \in 0..MaxBuf :
         LET in == Buffer(Len(calls) + 1, len)
             d == Duration(currentFrames + Size(in), sampleRate, numChannels)
         IN  /\ keepsStream(Cur, d) \/ Len(streams) < MaxSessions
             /\ calls' = Append(calls, in)
             /\ callback' = IF keepsStream(Cur, d) THEN "send" ELSE "close"
    /\ UNCHANGED <<numChannels, sampleRate, maxLength, currentStream, currentFrames,
                   streams, last, closedAt, failures, svars, main>>

\* The step of a callback that takes the recorder to rs and the callback to pc.
CallbackStep(rs, pc) ==
    /\ Install(rs, "Process")
    /\ callback' = pc
    /\ UNCHANGED <<numChannels, sampleRate, maxLength, calls, closedAt, svars, main>>

\* testAndCloseStream calls closeCurrentStream.
CallbackClose ==
    /\ callback = "close"
    /\ CallbackStep(closeCurrentStream(Cur, TRUE), "record")

\* testAndCloseStream calls client.Record.
CallbackRecord ==
    /\ callback = "record"
    /\ CallbackStep(Record(Cur, TRUE), "header")

\* testAndCloseStream sends the Header.
CallbackHeader ==
    /\ callback = "header"
    /\ CallbackStep(SendHeader(Cur, TRUE), "send")

\* The callback counts the frames and sends the sample block.
CallbackSend ==
    /\ callback = "send"
    /\ CallbackStep(SendBlock(Cur, calls[Len(calls)], TRUE), "idle")

\* R.Close() of the recorder connected to the server, after the last callback.
SystemClose ==
    /\ callback = "idle"
    /\ closedAt = <<>>
    /\ Ops < MaxSystemOps
    /\ CloseOK

\* The server accepts the recorder's s-th stream and starts server.Record on it.
Serve(s) ==
    /\ s <= Len(streams)
    /\ Accept(s)

\* Recv of session s returns the next message of the recorder's s-th stream.
Deliver(s) ==
    /\ sessions[s].pc = "recv"
    /\ Len(sessions[s].recvd) < Len(Sent(streams[s]))
    /\ SInstall(recv(SCur, s, Sent(streams[s])[Len(sessions[s].recvd) + 1]))
    /\ UNCHANGED <<rvars, cvars>>

\* Recv of session s returns io.EOF: the recorder issued CloseSend on the stream
\* and everything sent on it has been received.
EndOfStream(s) ==
    /\ sessions[s].pc = "recv"
    /\ CloseSends(streams[s]) >= 1
    /\ Len(sessions[s].recvd) = Len(Sent(streams[s]))
    /\ SInstall(return(SCur, s, "nil"))
    /\ UNCHANGED <<rvars, cvars>>

\* ------------------------------------------------------------ claims C1..C8

\* C1: sample preservation. When every Record, Send and CloseSend call has
\* succeeded, the sample payloads of the messages sent, taken over the streams
\* in the order they were opened and within a stream in send order, put end to
\* end equal the input buffers put end to end.
C1_SamplePreservation ==
    failures = 0 =>
        Flatten([i \in 1..Len(streams) |-> Payload(Sent(streams[i]))]) = Input

\* C1 witness: three streams, each carrying samples, after at least two rotations.
C1_Witness ==
    /\ failures = 0
    /\ Len(streams) >= 3
    /\ \A i \in 1..Len(streams) : Payload(Sent(streams[i])) # <<>>

\* C2: header invariant. On every stream the recorder has opened, the first call
\* it issued is the Send of a Header carrying the configured channel count and
\* sample rate, and no later message passed to Send on that stream carries a Header:
\* one Header per stream, before every sample block.
C2_HeaderInvariant ==
    \A i \in 1..Len(streams) :
        LET log == streams[i]
        IN  /\ Len(log) >= 1
            /\ log[1].op = "Send"
            /\ log[1].msg = HeaderMsg(numChannels, sampleRate)
            /\ \A j \in 2..Len(log) : ~log[j].msg.hasHeader

\* C2 witness: two streams opened, one of them carrying its Header and two blocks.
C2_Witness ==
    /\ Len(streams) >= 2
    /\ \E i \in 1..Len(streams) : Len(SampleBlocks(Sent(streams[i]))) >= 2

\* C3: partition of whole-second buffers, as claimed. A mono recorder with
\* maxLength = k whole
\* seconds (k >= 1), fed n one-second buffers with all transport calls succeeding
\* and Close() called only after the last buffer, has opened ceil(n/k) streams, and
\* stream i holds one Header followed by buffers (i-1)*k+1 .. min(i*k, n).
C3_Partition ==
    LET k == maxLength \div Second
        n == Len(calls)
    IN  (/\ failures = 0
         /\ numChannels = 1
         /\ maxLength = k * Second /\ k >= 1
         /\ \A i \in 1..n : Size(calls[i]) = sampleRate
         /\ ClosedOnlyAtEnd)
        => /\ Len(streams) = CeilDiv(n, k)
           /\ \A i \in 1..Len(streams) :
                Sent(streams[i]) =
                    <<HeaderMsg(numChannels, sampleRate)>>
                    \o [j \in 1..(Min(i * k, n) - (i - 1) * k) |->
                            SampleMsg(calls[(i - 1) * k + j])]

\* C4: rotation boundary rule, as claimed. A Process callback opens a new stream
\* if and only if no stream is open or (currentFrames + len(buffer)) /
\* (sampleRate * numChannels) seconds is strictly greater than maxLength.
C4_RotationRule ==
    [][calls' # calls =>
        (Len(streams') > Len(streams)
         <=> (\/ currentStream = Nil
              \/ (currentFrames + Size(calls'[Len(calls')])) * Second > maxLength * Div))]_vars

\* C5: per-stream length bound, as claimed. After any sequence of Process callbacks
\* the sample blocks sent on one stream total at most maxLength of audio, unless the
\* stream carries a single block that alone is longer than maxLength.
C5_StreamLengthBound ==
    closedAt = <<>> =>
        \A i \in 1..Len(streams) :
            LET blocks == SampleBlocks(Issued(streams[i]))
            IN  \/ Samples(Payload(blocks)) * Second <= maxLength * Div
                \/ Len(blocks) = 1

\* C6: rotation count, as claimed. For constant-size buffers of duration d and a
\* chunk length M that is no exact multiple of d, the number of streams opened
\* equals ceil(total_duration / M).
C6_RotationCountClaimed ==
    LET n == Len(calls)
        len == Size(calls[1])
    IN  (/\ n >= 1
         /\ failures = 0
         /\ ConstantBuffers(len)
         /\ ClosedOnlyAtEnd
         /\ (maxLength * Div) % (len * Second) # 0)
        => Len(streams) = CeilDiv(n * len * Second, maxLength * Div)

\* Buffers of len samples the boundary rule admits on one stream: floor(M / d),
\* d the exact duration of one buffer, and never less than one, the buffer that
\* opens a stream being always sent on it.
BuffersPerStream(len) ==
    LET fit == (maxLength * Div) \div (len * Second)
    IN  IF fit < 1 THEN 1 ELSE fit

\* Each buffer of len samples covers a whole number of seconds, and the input is
\* short enough for float32 to hold every frame count exactly.
WholeSeconds(len) == len % Div = 0 /\ Samples(calls) < 2^24

\* C6 amended: for constant-size buffers that each cover a whole number of
\* seconds d, with all transport calls succeeding and Close() called only after
\* the last buffer, the number of streams opened is ceil(n / k), n the number of
\* buffers and k = max(1, floor(M / d)) the number of whole buffers that fit in
\* the chunk length M.
C6_RotationCount ==
    LET n == Len(calls)
        len == Size(calls[1])
    IN  (/\ n >= 1
         /\ failures = 0
         /\ ConstantBuffers(len)
         /\ WholeSeconds(len)
         /\ ClosedOnlyAtEnd)
        => Len(streams) = CeilDiv(n, BuffersPerStream(len))

\* C6 witness: one-second buffers and M = 1.5 s: three buffers, three streams, where
\* ceil(total_duration / M) is two.
C6_Witness ==
    /\ failures = 0 /\ numChannels = 1 /\ maxLength = 1500
    /\ Len(calls) = 3 /\ ConstantBuffers(sampleRate)
    /\ ClosedOnlyAtEnd
    /\ Len(streams) = 3

\* C7: idempotent close, as claimed. A Close() that directly follows a Close()
\* returns no error and issues no CloseSend: the stream that was open before the
\* first call gets one CloseSend in total.
C7_IdempotentClose ==
    [][(last.op = "Close" /\ Len(closedAt') > Len(closedAt))
        => (streams' = streams /\ last'.err = "none")]_vars

\* C8: failed rotation leaves the recorder streamless, as claimed. A Process
\* callback in which client.Record or the Send of the Header fails sends no buffer
\* and leaves no current stream, and the Process callback after it opens a stream
\* again (or fails in client.Record again) before it sends any block.
C8_FailedRotationStreamless ==
    [][calls' # calls =>
        /\ last'.err \in {"Record", "Header"} =>
              /\ currentStream' = Nil
              /\ \A i \in 1..Len(streams') :
                    SampleBlocks(Issued(streams'[i])) =
                        IF i <= Len(streams) THEN SampleBlocks(Issued(streams[i]))
                        ELSE <<>>
        /\ (last.op = "Process" /\ last.err \in {"Record", "Header"}) =>
              (Len(streams') > Len(streams) \/ last'.err = "Record")]_vars


\* ------------------------------------------------------------ claims C9..C10

\* The newRecording calls session s made.
RecordingsOf(s) == {i \in 1..Len(recordings) : recordings[i].session = s}

\* The files created for session s: the calls in which sndfile.Open succeeded.
FilesOf(s) == {i \in RecordingsOf(s) : recordings[i].ok}

\* The non-empty sample payloads among msgs, in order.
NonEmptyPayloads(msgs) == Payload(msgs)

AllButLast(q) == SubSeq(q, 1, Len(q) - 1)

\* The messages session s has received and dealt with: all it received but the
\* one it stands with before newRecording or WriteFrames.
Handled(s) ==
    IF sessions[s].pc \in {"open", "write"}
    THEN AllButLast(sessions[s].recvd)
    ELSE sessions[s].recvd

\* C9: file per stream, as claimed. With no file writer call failing, a session
\* that has ended, also one whose stream ended before delivering any message, has
\* created exactly one file, and the file holds the non-empty sample payloads
\* received on its stream, in receive order.
C9_FilePerStreamClaimed ==
    \A s \in Sessions :
        (sessions[s].pc = "done" /\ fileFailures = 0) =>
            /\ Cardinality(FilesOf(s)) = 1
            /\ \A i \in FilesOf(s) :
                 recordings[i].frames = NonEmptyPayloads(sessions[s].recvd)

\* C9 amended: a session asks for at most one file, and for none before its stream
\* has delivered a message: a stream that ends before delivering any message gets
\* no file, every other stream exactly one, when its first message is dealt with,
\* if sndfile.Open succeeds.  Each file holds exactly the non-empty sample payloads
\* its own stream delivered and its session has dealt with, in receive order (all
\* but the block whose WriteFrames failed, if one did), and nothing else.
C9_FilePerStream ==
    /\ \A s \in Sessions :
         /\ Cardinality(RecordingsOf(s)) =
                IF sessions[s].recvd = <<>> \/ sessions[s].pc = "open" THEN 0 ELSE 1
         /\ FilesOf(s) = IF sessions[s].out = Nil THEN {} ELSE {sessions[s].out}
    /\ \A i \in 1..Len(recordings) :
         LET got == NonEmptyPayloads(Handled(recordings[i].session))
         IN  recordings[i].frames =
                 IF ~recordings[i].ok THEN <<>>
                 ELSE IF recordings[i].writeFailed THEN AllButLast(got)
                 ELSE got

\* C9 witness: one stream delivered two non-empty blocks, both in its file in order,
\* and another accepted stream ended without delivering a message and has no file.
C9_Witness ==
    \E s, t \in Sessions :
        /\ s # t
        /\ \E i \in FilesOf(s) : Len(recordings[i].frames) = 2
        /\ sessions[t].pc = "done" /\ sessions[t].recvd = <<>>
        /\ RecordingsOf(t) = {}

\* The first message of a stream is malformed: no Header, or a Header whose channel
\* count or sample rate is not positive.
Malformed(m) == ~m.hasHeader \/ m.num_channels <= 0 \/ m.sample_rate <= 0

\* C10: malformed first message is rejected, as claimed. A session whose first
\* received message is malformed ends on it: no file is created for it, no
\* sample is written and no further message is received.
C10_MalformedRejected ==
    \A s \in Sessions :
        (sessions[s].recvd # <<>> /\ Malformed(sessions[s].recvd[1])) =>
            /\ sessions[s].pc \in {"open", "done"}
            /\ Len(sessions[s].recvd) = 1
            /\ FilesOf(s) = {}

\* ------------------------------------------------------------ claims C11..C20

\* C11: unique file names under concurrency. For every interleaving of the
\* sessions, the k-th call of newRecording reads the counter value k-1, so every
\* call reads a distinct value; numClients equals the number of calls made, those
\* whose sndfile.Open failed included (it rises by one per call and never falls);
\* and no two calls, even within one timestamp second, name the same file.
C11_UniqueNames ==
    /\ numClients = Len(recordings)
    /\ \A i \in 1..Len(recordings) : recordings[i].seq = i - 1
    /\ \A i, j \in 1..Len(recordings) :
         i # j => FileName(recordings[i].seq) # FileName(recordings[j].seq)

\* C11 witness: two sessions called newRecording, the first call failed in
\* sndfile.Open, and the second call made its file under the next number.
C11_Witness ==
    /\ Len(recordings) = 2
    /\ recordings[1].session # recordings[2].session
    /\ ~recordings[1].ok
    /\ recordings[2].ok /\ recordings[2].seq = 1

\* The streams on which no CloseSend has been issued yet.
Unreleased == {i \in 1..Len(streams) : CloseSends(streams[i]) = 0}

\* C12: client stream release. After any sequence of Process callbacks and any
\* mix of Record, Send and CloseSend failures, at most one stream the recorder
\* opened has had no CloseSend issued on it, and that one is the current stream;
\* when Close() has returned, CloseSend has been issued on every stream the
\* recorder opened.
C12_StreamRelease ==
    /\ Cardinality(Unreleased) <= 1
    /\ Unreleased \subseteq {currentStream}
    /\ last.op = "Close" => Unreleased = {}

\* C12 witness: Close() returned after a run with a failed transport call that
\* opened at least two streams, the last of which got its CloseSend from Close().
C12_Witness ==
    /\ last.op = "Close"
    /\ failures >= 1
    /\ Len(streams) >= 2
    /\ closedAt = <<Len(calls)>>
    /\ CloseSends(streams[Len(streams)]) = 1

\* C13: server file release. A file a session created has been closed exactly
\* once when the session has ended, whichever way it ended (Recv returning
\* end-of-stream or a transport error, or WriteFrames returning an error), and
\* has not been closed before; once a file is closed nothing is written to it
\* and it is not closed again.
C13_FileRelease ==
    /\ [](\A s \in Sessions : \A i \in FilesOf(s) :
            Len(recordings[i].closed) = IF sessions[s].pc = "done" THEN 1 ELSE 0)
    /\ [][\A i \in 1..Len(recordings) :
            recordings[i].closed # <<>> => recordings'[i] = recordings[i]]_vars

\* C13 witness: one session ended by a Recv error after a block was written, one
\* ended by a WriteFrames error; the file of each has been closed once.
C13_Witness ==
    \E s, t \in Sessions :
        /\ sessions[s].pc = "done" /\ sessions[s].ret = "nil"
        /\ sessions[t].pc = "done" /\ sessions[t].ret = "write"
        /\ \E i \in FilesOf(s) :
             Len(recordings[i].frames) = 1 /\ Len(recordings[i].closed) = 1
        /\ \E j \in FilesOf(t) :
             recordings[j].writeFailed /\ Len(recordings[j].closed) = 1

\* C14: file close failure is propagated, as claimed. A session (of a stream
\* that began with a well-formed Header) whose output file failed to close when
\* the session ended has returned a non-nil error.
C14_CloseFailurePropagated ==
    \A s \in Sessions :
        (/\ sessions[s].pc = "done"
         /\ sessions[s].recvd # <<>> /\ ~Malformed(sessions[s].recvd[1])
         /\ \E i \in FilesOf(s) : \E k \in 1..Len(recordings[i].closed) :
                ~recordings[i].closed[k])
        => sessions[s].ret # "nil"

\* The recorder after the first n buffers and the first c Close() calls of the
\* run so far, had every transport call succeeded.
RECURSIVE Replay(_, _)
Replay(n, c) ==
    IF n = 0 /\ c = 0
    THEN RState(Nil, 0, <<>>, "none", 0)
    ELSE IF c > 0 /\ closedAt[c] = n
         THEN closeCurrentStream(Replay(n, c - 1), TRUE)
         ELSE ProcessCallback(Replay(n - 1, c), calls[n], TRUE, TRUE, TRUE, TRUE)

\* The Send calls of sample blocks that returned an error.
FailedBlockSends ==
    Len(SelectSeq(Flatten(streams),
                  LAMBDA e : e.op = "Send" /\ ~e.ok /\ ~e.msg.hasHeader))

\* C16: Send failure does not disturb the rotation schedule. When the only
\* transport calls that failed are Sends of sample blocks, the recorder has the
\* current stream and frame counter, has opened the streams and has issued on
\* each of them the messages it would have with every Send succeeding on the
\* same input: a failed Send keeps the stream current, counts the buffer's
\* frames, and moves no rotation.
C16_SendFailureKeepsSchedule ==
    failures = FailedBlockSends =>
        LET r == Replay(Len(calls), Len(closedAt))
        IN  /\ currentStream = r.currentStream
            /\ currentFrames = r.currentFrames
            /\ Len(streams) = Len(r.streams)
            /\ \A i \in 1..Len(streams) : Issued(streams[i]) = Issued(r.streams[i])

\* C16 witness: the Send of the first block failed, the next buffer went out on
\* the same stream, and a later buffer met the rotation condition.
C16_Witness ==
    /\ failures = FailedBlockSends /\ failures >= 1
    /\ Len(streams) >= 2
    /\ Len(streams[1]) >= 3
    /\ ~streams[1][2].ok /\ streams[1][3].op = "Send"
    /\ Len(SampleBlocks(Issued(streams[2]))) >= 1

\* The newRecording calls of session s in which sndfile.Open failed, and those
\* whose file later had a WriteFrames call fail.
OpenFailures(s) == {i \in RecordingsOf(s) : ~recordings[i].ok}

WriteFailures(s) == {i \in RecordingsOf(s) : recordings[i].writeFailed}

\* C17: server file failure is local to the session. A session in which
\* sndfile.Open or WriteFrames failed has ended and returned that error, the
\* failing message is the last it received, and its file (if any) holds the blocks
\* received before the failing one and no later block.  A session none of whose
\* own file writer calls failed has returned no error and, once it has dealt with
\* a message, has its file, which holds every non-empty block it has dealt
\* with.  A step of one session changes no other session and no other
\* session's file, and an ended session does nothing more.
C17_FileFailureLocal ==
    /\ [](\A s \in Sessions :
            /\ OpenFailures(s) # {} =>
                  /\ sessions[s].pc = "done" /\ sessions[s].ret = "open"
                  /\ Len(sessions[s].recvd) = 1
                  /\ FilesOf(s) = {}
            /\ WriteFailures(s) # {} =>
                  /\ sessions[s].pc \in {"close", "done"} /\ sessions[s].ret = "write"
                  /\ Size(sessions[s].recvd[Len(sessions[s].recvd)].sample) > 0
                  /\ \A i \in FilesOf(s) :
                       recordings[i].frames =
                           AllButLast(NonEmptyPayloads(sessions[s].recvd))
            /\ (OpenFailures(s) = {} /\ WriteFailures(s) = {}) =>
                  /\ sessions[s].ret \in {"none", "nil"}
                  /\ Handled(s) # <<>> => FilesOf(s) # {}
                  /\ \A i \in FilesOf(s) :
                       recordings[i].frames = NonEmptyPayloads(Handled(s)))
    /\ [][\A s \in Sessions :
            /\ sessions'[s] # sessions[s] =>
                  \A t \in Sessions \ {s} :
                      /\ sessions'[t] = sessions[t]
                      /\ \A i \in RecordingsOf(t) : recordings'[i] = recordings[i]
            /\ sessions[s].pc = "done" => sessions'[s] = sessions[s]]_vars

\* C17 witness: sndfile.Open failed for one session, and after that another
\* session created its file and appended a block to it.
C17_Witness ==
    \E s, t \in Sessions :
        /\ s # t
        /\ \E i \in OpenFailures(s) : \E j \in FilesOf(t) :
              i < j /\ Len(recordings[j].frames) = 1
        /\ sessions[s].ret = "open"
        /\ sessions[t].pc = "recv"

\* C15: client shutdown ordering, as claimed. On every path by which the client
\* exits after the capture stream was started, R.Close() is called only after
\* the capture source was stopped and no Process callback comes after it, and
\* when the process has exited (here: with no transport call having failed)
\* CloseSend has been issued on the active stream.
C15_ShutdownOrdering ==
    /\ closedAt # <<>> =>
          /\ main.pc \in {"closed", "exited"}
          /\ closedAt = <<Len(calls)>>
    /\ (main.pc = "exited" /\ failures = 0 /\ currentStream # Nil) =>
          CloseSends(streams[currentStream]) >= 1

\* C18: no send on a half-closed stream, as claimed. For any sequence of
\* Process callbacks and Close() calls, no Send, of a Header or of a sample
\* block, is issued on a stream after CloseSend was issued on it.
C18_NoSendAfterCloseSend ==
    \A i \in 1..Len(streams) :
        \A j, k \in 1..Len(streams[i]) :
            (j < k /\ streams[i][j].op = "CloseSend") => streams[i][k].op # "Send"

\* C19: file order follows stream order, as claimed. With one recorder and one
\* server connected by reliable, ordered per-stream channels and all calls
\* succeeding, in every interleaving of the sessions the file of an earlier
\* opened stream has a smaller sequence number than the file of a later one.
C19_FileOrderFollowsStreamOrder ==
    fileFailures = 0 =>
        \A i, j \in 1..Len(recordings) :
            recordings[i].session < recordings[j].session
                => recordings[i].seq < recordings[j].seq

\* C20: only the first message of a stream configures the file. A session calls
\* newRecording at most once, with the channel count and sample rate of the
\* Header of the first message it received; a Header on a later message, equal
\* or not, makes no second file and leaves the format as it is.  When no
\* WriteFrames call failed, the file holds the sample payload of every received
\* message whose payload is not empty, the first message included, in receive
\* order, and an empty payload adds nothing.
C20_FirstMessageConfigures ==
    \A s \in Sessions :
        /\ Cardinality(RecordingsOf(s)) <= 1
        /\ \A i \in RecordingsOf(s) :
             /\ recordings[i].channels = sessions[s].recvd[1].num_channels
             /\ recordings[i].samplerate = sessions[s].recvd[1].sample_rate
             /\ (recordings[i].ok /\ ~recordings[i].writeFailed) =>
                   /\ recordings[i].frames = NonEmptyPayloads(Handled(s))
                   /\ \A k \in 1..Len(recordings[i].frames) :
                        Size(recordings[i].frames[k]) > 0

\* C20 witness: a stream whose first message carries a Header and samples and
\* whose second message carries a different Header and samples: one file, in the
\* first Header's format, holding both payloads.
C20_Witness ==
    \E s \in Sessions :
        /\ Len(sessions[s].recvd) = 2
        /\ sessions[s].recvd[1].hasHeader /\ sessions[s].recvd[2].hasHeader
        /\ sessions[s].recvd[1].num_channels # sessions[s].recvd[2].num_channels
        /\ Cardinality(FilesOf(s)) = 1
        /\ \A i \in FilesOf(s) :
             /\ recordings[i].channels = sessions[s].recvd[1].num_channels
             /\ recordings[i].frames =
                    <<sessions[s].recvd[1].sample, sessions[s].recvd[2].sample>>
             /\ Size(sessions[s].recvd[1].sample) > 0
             /\ Size(sessions[s].recvd[2].sample) > 0

\* ------------------------------------------------------------ specifications
\* The recorder with a transport whose calls may fail.
Init ==
    /\ \E ml \in {1000, 2000} : New(ml, 1, 2)
    /\ ServerInit
    /\ NoMain

Next == Process \/ Close

Spec == Init /\ [][Next]_vars

\* The recorder with a transport whose calls all succeed.
InitOK ==
    /\ \E ml \in {1000, 1500, 2000, 3000}, nc \in {1, 2} : New(ml, nc, 2)
    /\ ServerInit
    /\ NoMain

NextOK == ProcessOK \/ CloseOK

SpecOK == InitOK /\ [][NextOK]_vars

\* The recorder alone with every transport call succeeding, at sample rates of 1
\* and 2 Hz: buffers of one, two and three whole seconds.
InitRates ==
    /\ \E ml \in {1000, 1500, 2000, 3000}, nc \in {1, 2}, sr \in {1, 2} :
         New(ml, nc, sr)
    /\ ServerInit
    /\ NoMain

NextRates == ProcessOK \/ CloseOK

SpecRates == InitRates /\ [][NextRates]_vars

\* The recorder fed one-second buffers at an audio rate and at a rate of some
\* megahertz, with a transport whose calls all succeed.
InitSeconds ==
    /\ \E ml \in {1000, 2000, 3000}, sr \in {44100, 5592407} : New(ml, 1, sr)
    /\ ServerInit
    /\ NoMain

NextSeconds == ProcessSecond \/ CloseOK

SpecSeconds == InitSeconds /\ [][NextSeconds]_vars

\* The server alone, fed by arbitrary peers.
InitServer ==
    /\ New(1000, 1, 2)
    /\ ServerInit
    /\ NoMain

NextServer ==
    \E s \in Sessions :
        \/ Accept(s)
        \/ RecvMsg(s)
        \/ OpenFile(s)
        \/ WriteFrames(s)
        \/ RecvErr(s)
        \/ CloseFile(s)

SpecServer == InitServer /\ [][NextServer]_vars

\* The client's main from stream.Start() to the exit of the process, with a
\* transport whose calls may fail.
InitClient ==
    /\ \E ml \in {1000, 2000} : New(ml, 1, 2)
    /\ ServerInit
    /\ Started

NextClient == Callback \/ Stop \/ MainClose \/ Return

SpecClient == InitClient /\ [][NextClient]_vars

\* One recorder and one server, the recorder's i-th stream served by session i,
\* every transport and file writer call succeeding.
InitSystem ==
    /\ New(1000, 1, 2)
    /\ ServerInit
    /\ NoMain

NextSystem ==
    \/ CallbackBegin
    \/ CallbackClose
    \/ CallbackRecord
    \/ CallbackHeader
    \/ CallbackSend
    \/ SystemClose
    \/ \E s \in Sessions :
          \/ Serve(s)
          \/ Deliver(s)
          \/ OpenFile(s)
          \/ WriteFrames(s)
          \/ EndOfStream(s)
          \/ CloseFile(s)

SpecSystem == InitSystem /\ [][NextSystem]_vars

====
